---- MODULE Spec2Model ----
(***************************************************************************)
(* Model of the remote line reader of dcos-log                             *)
(* (mesos/files/reader/read.go): the ReadManager cursor, its constructor   *)
(* NewLineReader with the backward search for the last n lines, and the    *)
(* pull operation ReadManager.Read.  Beside it, each under a specification *)
(* of its own: the chunk splitter ReadManager.read, the plain-text journal *)
(* formatter (journal/reader/formatters.go) and the task discovery handler *)
(* (api/v2/discovery.go).                                                  *)
(*                                                                         *)
(* The remote file is a sequence of bytes.  All content is ASCII, so the   *)
(* rune reversal of reverse() is the reversal of the byte sequence.        *)
(***************************************************************************)
EXTENDS Integers, Sequences, FiniteSets, TLC

\* ------------------------------------------------------------------ bounds

\* Longest remote file the model explores, in bytes.
MaxFile == 7

\* Longest slice a consumer with a short buffer (ShortSpec) passes to Read.
ShortBuffer == 2

\* Longest file a follow run (LiveSpec) starts from.
StartLen == 2

\* Largest line count (option n) the model explores.
MaxN == 2

\* read.go:17 sets chunkSize = 1 << 16.  The model keeps every comparison and
\* subtraction against chunkSize and scales the value down so that files of a
\* few bytes span several chunks.
chunkSize == 4

\* The line terminator "\n" (read.go:218) as its byte value.
NL == 10

\* The bytes a file is made of: the terminator and the letter "a".
Bytes == {NL, 97}

\* ReadDirection (read.go:119-125).
TopToBottom == "TopToBottom"
BottomToTop == "BottomToTop"

\* ------------------------------------------------------------ pure helpers

Min(a, b) == IF a < b THEN a ELSE b

\* reverse (read.go:296-302).
reverse(s) == [i \in 1..Len(s) |-> s[Len(s) + 1 - i]]

\* The positions of the terminators of s.
Terminators(s) == {i \in 1..Len(s) : s[i] = NL}

\* The position of the j-th terminator of s; 0 for j = 0 and Len(s)+1 past the last.
TerminatorAt(s, j) ==
    IF j = 0 THEN 0
    ELSE IF j > Cardinality(Terminators(s)) THEN Len(s) + 1
    ELSE CHOOSE i \in Terminators(s) :
             Cardinality({t \in Terminators(s) : t <= i}) = j

\* strings.Split(s, "\n") (read.go:218): k terminators give k+1 parts, the
\* j-th part being what lies between the (j-1)-th and the j-th terminator.
Split(s) ==
    [j \in 1..(Cardinality(Terminators(s)) + 1) |->
        SubSeq(s, TerminatorAt(s, j - 1) + 1, TerminatorAt(s, j) - 1)]

\* Sum of len(Message)+1 over ls[from..to].
RECURSIVE LinesLen(_, _, _)
LinesLen(ls, from, to) ==
    IF from > to THEN 0
    ELSE Len(ls[from].Message) + 1 + LinesLen(ls, from + 1, to)

\* Sum of len(part)+1 over the first k parts: the accumulator of read.go:228-236.
RECURSIVE Accumulator(_, _)
Accumulator(parts, k) ==
    IF k = 0 THEN 0
    ELSE Len(parts[k]) + 1 + Accumulator(parts, k - 1)

\* The remote read endpoint: the bytes [off, off+length) of the file that exist.
\* The size probe (off = -1) carries no data.
RemoteData(f, off, length) ==
    IF off < 0 THEN <<>>
    ELSE SubSeq(f, off + 1, Min(off + length, Len(f)))

\* The endpoint rejects every negative offset but the size probe -1.
RemoteAccepts(off) == off >= -1

\* What can happen to one request: it is answered with 200 and a JSON body
\* ("ok"), the transport fails, the status is not 200, or the body is no JSON.
FetchOutcomes == {"ok", "transport", "status", "json"}

\* What the request at offset off is answered with: the endpoint answers a
\* negative offset other than the size probe with a status that is not 200.
Answer(off, out) == IF out = "ok" /\ ~RemoteAccepts(off) THEN "status" ELSE out

\* Mutant of doFails: a status other than 200 is not taken for an error.
doFails_StatusUnchecked(off, out) == Answer(off, out) \in {"transport", "json"}

\* Mutant of doFails: the error of the JSON decoder is dropped.
doFails_DecodeUnchecked(off, out) == Answer(off, out) \in {"transport", "status"}

\* ReadManager.do (read.go:149-166) returns an error for a transport failure,
\* for a status other than 200 and for a body that does not decode.
doFails(off, out) == Answer(off, out) # "ok"

\* Mutant of notEmpty: the loop stops one argument short.
notEmpty_SkipsLast(a) ==
    IF Len(a) = 0 \/ \E i \in 1..(Len(a) - 1) : a[i] = "" THEN "ErrEmptyParam" ELSE "nil"

\* notEmpty (read.go:28-40): the error for an empty list or an empty argument.
notEmpty(a) ==
    IF Len(a) = 0 \/ \E i \in 1..Len(a) : a[i] = "" THEN "ErrEmptyParam" ELSE "nil"

\* A Line (the type of rm.lines' elements) and the value of a nil *Line.
NoLine == [Message |-> <<>>, Offset |-> -1, Size |-> -1]

\* read.go:220-238: of the parts of a chunk fetched at `off`, hold back the
\* last as delta when there is more than one, and give every remaining part
\* its offset.
SplitLines(parts, off) ==
    LET k     == Len(parts)
        delta == IF k > 1 THEN Len(parts[k]) ELSE 0
        ls    == IF k > 1 THEN SubSeq(parts, 1, k - 1) ELSE parts
    IN  [lines |-> [i \in 1..Len(ls) |->
                      [Message |-> ls[i],
                       Offset  |-> off + Accumulator(ls, i - 1),
                       Size    |-> Len(ls[i])]],
         delta |-> delta]

\* ReadManager.read from the decoded response on (read.go:218-238): split the
\* chunk fetched at `off` and number its lines.  modifier is "reverse" or "nil".
\* (The parts are bound once, as a value, before they are numbered.)
read(f, off, length, modifier) ==
    CHOOSE r \in {SplitLines(parts, off) :
                    parts \in {Split(IF modifier = "reverse"
                                     THEN reverse(RemoteData(f, off, length))
                                     ELSE RemoteData(f, off, length))}} : TRUE

\* ------------------------------------------------------------------- state

VARIABLES
    file,          \* the remote file's bytes
    pc,            \* "new", "locating" (inside the loop of NewLineReader), "ready", "failed"
    readDirection, \* rm.readDirection
    n,             \* rm.n
    stream,        \* rm.stream
    offset,        \* rm.offset
    searchOffset,  \* the local variable offset of NewLineReader
    foundLines,    \* the local variable foundLines of NewLineReader
    lines,         \* rm.lines
    readLines,     \* rm.readLines
    ev,            \* what the last constructor step or Read did and returned
    emitted,       \* the lines Read has returned so far, in order
    firstEOF,      \* Len(emitted) when Read first returned io.EOF, -1 before
    faults,        \* TRUE once a fetch has failed
    appended,      \* TRUE once the file has grown after construction began
    args,          \* agentID, frameworkID, executorID, containerID as passed to NewLineReader
    size,          \* the local variable size of NewLineReader, -1 before the probe
    ctorFetches,   \* the requests NewLineReader has issued (size probe included)
    blen,          \* len(b) of the slice the consumer passes to Read
    delivered,     \* the bytes Read has copied into b so far, in order
    chunk,         \* splitter on its own: the file and offset of one ReadManager.read call
    split,         \* splitter on its own: what that call returned, NoSplit before it
    entry,         \* text formatter: the journal entry passed to FormatEntry
    entryBytes,    \* text formatter: what FormatEntry returned, NoBytes before it
    req,           \* discover: the taskID and file of the request's route
    resolver,      \* discover: what nodeInfo.TaskCanonicalID answers for running and completed tasks
    handler,       \* discover: its position and its locals file, canonicalTaskID, err
    resolverCalls, \* discover: the `completed` argument of every TaskCanonicalID call, in order
    written        \* discover: the responses written to w, in order

vars == <<file, pc, readDirection, n, stream, offset, searchOffset, foundLines,
          lines, readLines, ev, emitted, firstEOF, faults, appended,
          args, size, ctorFetches, blen, delivered, chunk, split, entry, entryBytes,
          req, resolver, handler, resolverCalls, written>>

\* The reader's variables, and those of the functions exercised on their own.
reader == <<file, pc, readDirection, n, stream, offset, searchOffset, foundLines,
            lines, readLines, ev, emitted, firstEOF, faults, appended,
            args, size, ctorFetches, blen, delivered>>
splitter == <<chunk, split>>
formatter == <<entry, entryBytes>>
discovery == <<req, resolver, handler, resolverCalls, written>>
aside == <<splitter, formatter, discovery>>

NoSplit == [lines |-> <<>>, delta |-> -1]
NoBytes == [bytes |-> <<>>, err |-> "none"]

\* The functions exercised on their own are not in use.
SplitIdle ==
    /\ chunk = [f |-> <<>>, off |-> 0]
    /\ split = NoSplit

FormatIdle ==
    /\ entry = [Fields |-> <<>>, RealtimeTimestamp |-> 0]
    /\ entryBytes = NoBytes

\* A failed lookup, and the locals of discover before it runs.
NotFound == [ok |-> FALSE]
NoHandler == [pc |-> "start", file |-> "", i |-> 1, canonicalTaskID |-> NotFound, err |-> "nil"]

DiscoverIdle ==
    /\ req = [taskID |-> "", file |-> ""]
    /\ resolver = [running |-> NotFound, completed |-> NotFound]
    /\ handler = NoHandler
    /\ resolverCalls = <<>>
    /\ written = <<>>

AsideIdle == SplitIdle /\ FormatIdle /\ DiscoverIdle

config == <<readDirection, n, stream, args, blen>>
history == <<emitted, firstEOF, delivered>>

\* The files of at most MaxFile bytes.
Files == UNION {[1..k -> Bytes] : k \in 0..MaxFile}

\* A slice length no encoded line of these files exceeds.
FullBuffer == MaxFile + 1

\* The number of complete non-empty lines in the chunk a fetch at off returns.
CompleteLines(off) ==
    LET d == RemoteData(file, off, chunkSize)
    IN  Cardinality({i \in 1..Len(d) :
                       /\ i = 1 \/ d[i - 1] = NL
                       /\ d[i] # NL
                       /\ \E j \in (i + 1)..Len(d) : d[j] = NL})

\* The record kept of the last constructor step or Read: what it returned (res),
\* the fetches it issued, at which offset and with which outcome (out), the
\* number of lines read() returned (got), the number of complete non-empty lines
\* in the chunk at the fetched offset (complete), the buffer length, readLines and
\* offset it started from, the line at the consuming end of the buffer when it
\* started (head), and the line it popped (line).
Event(op, res, fetches, fetchAt, out, got, bufBefore, readBefore, offBefore, head, line) ==
    [op |-> op, res |-> res, fetches |-> fetches, fetchAt |-> fetchAt, out |-> out,
     got |-> got, complete |-> CompleteLines(fetchAt), bufBefore |-> bufBefore, readBefore |-> readBefore,
     offBefore |-> offBefore, head |-> head, line |-> line]

\* The ReadManager literal of read.go:56-63 with the options applied
\* (read.go:65-71): direction, n and stream are whatever the options set.
Start ==
    /\ file \in Files
    /\ pc = "new"
    /\ readDirection \in {TopToBottom, BottomToTop}
    /\ n \in 1..MaxN
    /\ stream \in BOOLEAN
    /\ offset = 0
    /\ searchOffset = 0
    /\ foundLines = 0
    /\ lines = <<>>
    /\ readLines = 0
    /\ ev = Event("none", "none", 0, -2, "none", -1, 0, 0, 0, NoLine, NoLine)
    /\ emitted = <<>>
    /\ firstEOF = -1
    /\ faults = FALSE
    /\ appended = FALSE
    /\ args \in [1..4 -> {"", "id"}]
    /\ size = -1
    /\ ctorFetches = 0
    /\ delivered = <<>>
    /\ AsideIdle

\* The consumer's slice holds every encoded line whole.
Init == Start /\ blen = FullBuffer

\* ------------------------------------------------------------- constructor

\* read.go:96-101: the offset once the chunk holding the boundary is found.
\* diff lines are counted from the end of the reversed chunk's lines.
LocatedOffset(off, ls, diff) ==
    off - LinesLen(ls, Len(ls) - diff + 1, Len(ls))

\* Mutant of NextSearchOffset: the search moves by the held-back part only.
NextSearchOffset_ByDelta(so, delta) == so - delta

\* read.go:108: the next position of the backward search.
NextSearchOffset(so, delta) == so - (chunkSize - delta)

\* Mutant of ReachedTop: position 0 is still searched.
ReachedTop_Zero(so) == so < 0

\* read.go:85: the search has reached the top of the file.
ReachedTop(so) == so < 1

\* NewLineReader up to the loop (read.go:43-81).  An empty coordinate ends it
\* with ErrEmptyParam before anything else is done.  A TopToBottom reader is
\* returned at once with offset 0; a BottomToTop reader probes the file size
\* with fileLen (read.go:168-188) and enters the loop.
NewLineReader ==
    /\ pc = "new"
    /\ IF notEmpty(args) # "nil"
       THEN /\ pc' = "failed"
            /\ ev' = Event("NewLineReader", "err", 0, -2, "none", -1, 0, 0, offset,
                           NoLine, NoLine)
            /\ UNCHANGED <<offset, searchOffset, foundLines, faults, size, ctorFetches>>
       ELSE \/ /\ readDirection = TopToBottom
               /\ pc' = "ready"
               /\ ev' = Event("NewLineReader", "ok", 0, -2, "none", -1, 0, 0, offset,
                              NoLine, NoLine)
               /\ UNCHANGED <<offset, searchOffset, foundLines, faults, size, ctorFetches>>
            \/ /\ readDirection = BottomToTop
               /\ ctorFetches' = ctorFetches + 1
               /\ \E out \in FetchOutcomes :
                    IF ~doFails(-1, out)
                    THEN /\ size' = Len(file)
                         /\ offset' = size'
                         /\ searchOffset' = size' - chunkSize
                         /\ foundLines' = 0
                         /\ pc' = "locating"
                         /\ ev' = Event("NewLineReader", "probe", 1, -1, out, -1, 0, 0,
                                        offset, NoLine, NoLine)
                         /\ UNCHANGED faults
                    ELSE /\ pc' = "failed"
                         /\ faults' = TRUE
                         /\ ev' = Event("NewLineReader", "err", 1, -1, out, -1, 0, 0,
                                        offset, NoLine, NoLine)
                         /\ UNCHANGED <<offset, searchOffset, foundLines, size>>
    /\ UNCHANGED <<file, config, lines, readLines, history, appended, aside>>

\* One iteration of the loop of NewLineReader (read.go:82-110).
Locate ==
    /\ pc = "locating"
    /\ IF ReachedTop(searchOffset)
       THEN /\ offset' = 0
            /\ pc' = "ready"
            /\ ev' = Event("Locate", "top", 0, -2, "none", -1, 0, 0, offset, NoLine, NoLine)
            /\ UNCHANGED <<searchOffset, foundLines, faults>>
       ELSE \E out \in FetchOutcomes :
              IF ~doFails(searchOffset, out)
              THEN \E r \in {read(file, searchOffset, chunkSize, "reverse")} :
                   LET k == Len(r.lines)
                   IN  /\ UNCHANGED faults
                       /\ IF foundLines + k >= n
                          THEN /\ offset' = LocatedOffset(offset, r.lines, n - foundLines)
                               /\ pc' = "ready"
                               /\ ev' = Event("Locate", "found", 1, searchOffset, out, k,
                                              0, 0, offset, NoLine, NoLine)
                               /\ UNCHANGED <<searchOffset, foundLines>>
                          ELSE /\ foundLines' = foundLines + k
                               /\ searchOffset' = NextSearchOffset(searchOffset, r.delta)
                               /\ offset' = searchOffset'
                               /\ pc' = "locating"
                               /\ ev' = Event("Locate", "more", 1, searchOffset, out, k,
                                              0, 0, offset, NoLine, NoLine)
              ELSE /\ pc' = "failed"
                   /\ faults' = TRUE
                   /\ ev' = Event("Locate", "err", 1, searchOffset, Answer(searchOffset, out), -1,
                                  0, 0, offset, NoLine, NoLine)
                   /\ UNCHANGED <<offset, searchOffset, foundLines>>
    /\ ctorFetches' = IF ReachedTop(searchOffset) THEN ctorFetches ELSE ctorFetches + 1
    /\ UNCHANGED <<file, config, lines, readLines, history, appended, size, aside>>

\* -------------------------------------------------------------------- Read

\* Mutants of LimitReached: the limit is compared one line too late, it is
\* only checked once exceeded, and it is applied to streaming readers too.
LimitReached_OneLate == ~stream /\ readLines = n + 1
LimitReached_Exceeded == ~stream /\ readLines > n
LimitReached_AlsoStreaming == readLines = n

\* read.go:262: the line limit of a non-streaming reader is used up.
LimitReached == ~stream /\ readLines = n

\* Mutant of NeedFetch: Read refills the buffer when one line is left.
NeedFetch_LookAhead == Len(lines) <= 1

\* read.go:266: Read fetches only when the buffer is empty.
NeedFetch == Len(lines) = 0

\* read.go:272: the lines of a fetch are buffered only when there are several.
Buffered(ls) == Len(ls) > 1

\* Mutant of Prepand: the line is put at the consuming end of the buffer.
Prepand_AtEnd(buf, s) == Append(buf, s)

\* Prepand (read.go:242-245).
Prepand(buf, s) == <<s>> \o buf

\* read.go:274-277: Prepand every line of the chunk, first line first.
RECURSIVE PrepandAll(_, _, _)
PrepandAll(buf, ls, i) ==
    IF i > Len(ls) THEN buf
    ELSE PrepandAll(Prepand(buf, ls[i]), ls, i + 1)

\* read.go:279-283: the offset after the lines ls of a chunk were buffered.
AdvancedOffset(off, ls, delta) ==
    LET linesLen == LinesLen(ls, 1, Len(ls))
    IN  IF linesLen < chunkSize
        THEN off + linesLen - 1
        ELSE (off + chunkSize) - delta - 1

\* The Formatter passed to NewLineReader (read.go:44, 146): the plain-text
\* encoding of a line, its message and a newline.
formatFn(line) == line.Message \o <<NL>>

\* strings.NewReader(s).Read(b) with len(b) = len on a non-empty s
\* (read.go:293): the bytes copied into b, as many of s as b holds.
Copied(s, len) == SubSeq(s, 1, Min(len, Len(s)))

\* The line at the consuming end of the buffer, the one Pop returns next.
NextLine == IF Len(lines) = 0 THEN NoLine ELSE lines[Len(lines)]

\* Pop and the rest of Read (read.go:247-258, 287-293): the line at the end of
\* the buffer is removed; nil or an empty message is answered with io.EOF,
\* anything else is counted and returned.
PopAndReturn(buffer, off, fetches, fetchAt, out, got) ==
    \E buf \in {buffer} :
    LET nil  == Len(buf) = 0
        line == IF nil THEN NoLine ELSE buf[Len(buf)]
        rest == IF nil THEN buf ELSE SubSeq(buf, 1, Len(buf) - 1)
        eof  == nil \/ line.Message = <<>>
    IN  /\ lines' = rest
        /\ offset' = off
        /\ readLines' = IF eof THEN readLines ELSE readLines + 1
        /\ emitted' = IF eof THEN emitted ELSE Append(emitted, line)
        /\ delivered' = IF eof THEN delivered ELSE delivered \o Copied(formatFn(line), blen)
        /\ firstEOF' = IF eof /\ firstEOF = -1 THEN Len(emitted) ELSE firstEOF
        /\ ev' = Event("Read", IF eof THEN "EOF" ELSE "line", fetches, fetchAt, out, got,
                       Len(lines), readLines, offset, NextLine, line)

\* ReadManager.Read (read.go:261-294).  What the caller receives for a
\* returned line is formatFn(line) copied into b (read.go:293): `delivered`
\* collects those bytes and ev.line keeps the line that was encoded.
Read ==
    /\ pc = "ready"
    /\ IF LimitReached
       THEN /\ ev' = Event("Read", "EOF", 0, -2, "none", -1, Len(lines), readLines, offset,
                            NextLine, NoLine)
            /\ firstEOF' = IF firstEOF = -1 THEN Len(emitted) ELSE firstEOF
            /\ UNCHANGED <<offset, lines, readLines, emitted, faults, delivered>>
       ELSE IF NeedFetch
       THEN \E out \in FetchOutcomes :
              IF ~doFails(offset, out)
              THEN \E r \in {read(file, offset, chunkSize, "nil")} :
                       /\ UNCHANGED faults
                       /\ IF Buffered(r.lines)
                          THEN PopAndReturn(PrepandAll(lines, r.lines, 1),
                                            AdvancedOffset(offset, r.lines, r.delta),
                                            1, offset, Answer(offset, out), Len(r.lines))
                          ELSE PopAndReturn(lines, offset, 1, offset, Answer(offset, out),
                                            Len(r.lines))
              ELSE /\ faults' = TRUE
                   /\ ev' = Event("Read", "err", 1, offset, Answer(offset, out), -1,
                                  Len(lines), readLines, offset, NextLine, NoLine)
                   /\ UNCHANGED <<offset, lines, readLines, emitted, firstEOF, delivered>>
       ELSE /\ PopAndReturn(lines, offset, 0, -2, "none", -1)
            /\ UNCHANGED faults
    /\ UNCHANGED <<file, pc, config, searchOffset, foundLines, appended, size, ctorFetches, aside>>

\* ------------------------------------------------------------- environment

\* The process that owns the remote file appends a byte to it.
FileGrows ==
    /\ pc \in {"locating", "ready"}
    /\ Len(file) < MaxFile
    /\ \E b \in Bytes : file' = Append(file, b)
    /\ appended' = TRUE
    /\ UNCHANGED <<pc, config, offset, searchOffset, foundLines, lines, readLines,
                   ev, history, faults, size, ctorFetches, aside>>

Next == NewLineReader \/ Locate \/ Read \/ FileGrows

Spec == Init /\ [][Next]_vars

\* A Read whose fetch, if it issues one, succeeds.
ReadOk == Read /\ ev'.out \in {"ok", "none"}

\* Following a file: a streaming TopToBottom reader over a file that starts
\* short and grows, with a caller that calls Read again after every return and
\* fetches that may succeed every time: a Read that succeeds and would change
\* the reader is eventually taken.
LiveInit ==
    /\ Init /\ stream /\ readDirection = TopToBottom /\ n = 1 /\ Len(file) <= StartLen
    /\ notEmpty(args) = "nil"

LiveNext == NewLineReader \/ Read \/ FileGrows

LiveSpec == LiveInit /\ [][LiveNext]_vars /\ WF_vars(ReadOk)

\* ------------------------------------------------- the lines of a file

\* The 0-based position of the first terminator of f at or after position p,
\* Len(f) when there is none.
RECURSIVE TerminatorFrom(_, _)
TerminatorFrom(f, p) ==
    IF p >= Len(f) THEN Len(f)
    ELSE IF f[p + 1] = NL THEN p
    ELSE TerminatorFrom(f, p + 1)

\* A line starts at position p: at the top of the file or after a terminator.
IsLineStart(f, p) == p >= 0 /\ p < Len(f) /\ (p = 0 \/ f[p] = NL)

\* A complete (terminated) line starts at p.
CompleteLineAt(f, p) == IsLineStart(f, p) /\ TerminatorFrom(f, p) < Len(f)

\* The line that starts at p.
LineAt(f, p) ==
    [Message |-> SubSeq(f, p + 1, TerminatorFrom(f, p)),
     Offset  |-> p,
     Size    |-> TerminatorFrom(f, p) - p]

\* The complete lines of f from position p on, in file order.
RECURSIVE LinesFrom(_, _)
LinesFrom(f, p) ==
    IF ~CompleteLineAt(f, p) THEN <<>>
    ELSE <<LineAt(f, p)>> \o LinesFrom(f, TerminatorFrom(f, p) + 1)

FileLines(f) == LinesFrom(f, 0)

\* f is k >= 1 non-empty lines, each terminated.
NonEmptyLinesFile(f) ==
    /\ Len(f) > 0
    /\ f[Len(f)] = NL
    /\ f[1] # NL
    /\ \A i \in 1..(Len(f) - 1) : ~(f[i] = NL /\ f[i + 1] = NL)

IsPrefix(s, t) == Len(s) <= Len(t) /\ s = SubSeq(t, 1, Len(s))

\* The lines Read returned before it first returned io.EOF.
BeforeEOF == IF firstEOF = -1 THEN emitted ELSE SubSeq(emitted, 1, firstEOF)

\* The line at offset p has been returned by Read.
Returned(p) == \E i \in 1..Len(emitted) : emitted[i].Offset = p

\* ------------------------------------------------------------------ claims

\* C1: tail mode.  For a static file of k non-empty terminated lines and a
\* BottomToTop reader with 1 <= n <= k whose fetches all succeed, the offset
\* with which NewLineReader returns is the first byte of line k-n+1, and the
\* lines Read returns up to its first io.EOF are exactly the last n lines.
C1_TailReturnsLastN ==
    (/\ pc = "ready"
     /\ readDirection = BottomToTop
     /\ ~faults /\ ~appended
     /\ NonEmptyLinesFile(file)
     /\ n <= Len(FileLines(file)))
    => LET all  == FileLines(file)
           want == SubSeq(all, Len(all) - n + 1, Len(all))
       IN  /\ ev.op \in {"NewLineReader", "Locate"} => offset = want[1].Offset
           /\ IsPrefix(BeforeEOF, want)
           /\ firstEOF # -1 => BeforeEOF = want

\* C2: full read.  For a static file of k non-empty terminated lines and a
\* TopToBottom reader without an effective line limit whose fetches all
\* succeed, the lines Read returns up to its first io.EOF are exactly the
\* lines of the file, in file order.
C2_FullReadReturnsFile ==
    (/\ pc = "ready"
     /\ readDirection = TopToBottom
     /\ (stream \/ n >= Len(FileLines(file)))
     /\ ~faults /\ ~appended
     /\ NonEmptyLinesFile(file))
    => /\ IsPrefix(BeforeEOF, FileLines(file))
       /\ firstEOF # -1 => BeforeEOF = FileLines(file)

\* C3: a streaming Read returns io.EOF only when the fetch it issued brought
\* no complete non-empty line, and never while the buffer holds such a line.
C3_StreamEOFOnlyOnEmptyFetch ==
    (stream /\ ev.op = "Read" /\ ev.res = "EOF")
    => /\ ev.fetches = 1
       /\ ev.complete = 0
       /\ \A i \in 1..Len(lines) : lines[i].Message = <<>>

\* C4: once a non-streaming reader with n >= 1 has returned n lines, every
\* further Read returns io.EOF at once: it issues no fetch and leaves the
\* offset, the buffer and the count alone, whatever is still unread.
C4_LimitStopsReading ==
    (~stream /\ ev.op = "Read" /\ ev.readBefore = n)
    => /\ ev.res = "EOF"
       /\ ev.fetches = 0
       /\ readLines = n
       /\ offset = ev.offBefore
       /\ Len(lines) = ev.bufBefore

\* C4 witness: the limit answered io.EOF although lines are still buffered and
\* bytes of the file are still unfetched.
C4_Witness ==
    /\ ~stream /\ ev.op = "Read" /\ ev.readBefore = n
    /\ ev.res = "EOF"
    /\ Len(lines) > 0
    /\ offset + 1 < Len(file)

\* C5: once the reader is constructed, 0 <= offset <= file size, also after a
\* backward search of more than one chunk and after every Read.
C5_OffsetInFile ==
    pc = "ready" => (0 <= offset /\ offset <= Len(file))

\* C6: follow.  With a caller that keeps calling a streaming TopToBottom
\* reader and fetches that all succeed, every complete non-empty line that is
\* or comes to be in the file is eventually returned by Read.  (faults stays
\* TRUE once a fetch has failed, so a behaviour with a failed fetch satisfies
\* the formula.)
C6_FollowReturnsEveryLine ==
    \A p \in 0..(MaxFile - 1) :
        (/\ pc = "ready" /\ stream /\ readDirection = TopToBottom
         /\ CompleteLineAt(file, p) /\ file[p + 1] # NL)
        ~> (Returned(p) \/ faults)

C8_FetchOnlyWhenEmpty ==
    /\ ev.op = "Read" => /\ ev.fetches <= 1
                         /\ ev.fetches = 1 => ev.bufBefore = 0
    /\ \A i \in 1..Len(lines) :
         /\ i > 1 => lines[i - 1].Offset = lines[i].Offset + lines[i].Size + 1
         /\ lines[1].Offset + lines[1].Size + 1 - lines[Len(lines)].Offset <= chunkSize

\* C8 witness: a Read served a line from the buffer without fetching, and
\* lines are still buffered.
C8_Witness ==
    /\ ev.op = "Read" /\ ev.fetches = 0 /\ ev.res = "line"
    /\ ev.bufBefore > 1
    /\ Len(lines) > 0

\* C9: a non-streaming reader with n >= 1 never returns more than n lines.
C9_CountWithinLimit ==
    ~stream => (readLines <= n /\ Len(emitted) <= n)

\* C9 witness: the count reached n with more lines at hand.
C9_Witness ==
    ~stream /\ readLines = n /\ Len(emitted) = n /\ Len(lines) > 0 /\ n > 1

\* C10: a streaming reader does not stop at n: a Read that starts with a
\* non-empty line buffered returns that line although n or more lines were
\* returned before, and one that starts with an empty buffer goes on to fetch.
C10_StreamIgnoresLimit ==
    (stream /\ ev.op = "Read" /\ ev.readBefore >= n)
    => /\ ev.head.Message # <<>> => (ev.res = "line" /\ ev.line = ev.head)
       /\ ev.bufBefore = 0 => ev.fetches = 1

\* C10 witness: a streaming reader returned a line after it had returned n.
C10_Witness ==
    /\ stream /\ ev.op = "Read" /\ ev.res = "line"
    /\ ev.readBefore >= n
    /\ ev.bufBefore > 0

\* ------------------------------------------------------ construction errors

\* C11: construction errors are immediate and final.  With an empty
\* coordinate NewLineReader ends in an error, no reader, and no request sent;
\* a failing size probe or chunk fetch ends it in that error; and once it has
\* failed no further request is sent.
C11_ConstructionErrors ==
    [][ /\ (pc = "new" /\ (\E i \in 1..4 : args[i] = ""))
           => (pc' = "failed" /\ ev'.res = "err" /\ ctorFetches' = 0)
        /\ (pc \in {"new", "locating"} /\ ctorFetches' > ctorFetches /\ ev'.out # "ok")
           => (pc' = "failed" /\ ev'.res = "err")
        /\ pc = "failed" => (pc' = "failed" /\ ctorFetches' = ctorFetches)
        /\ pc' = "failed" => (lines' = <<>> /\ emitted' = <<>>)
      ]_vars

\* C11 witness: construction failed on an empty containerID, the other three
\* coordinates given, and nothing was requested.
C11_Witness ==
    /\ pc = "failed" /\ ev.op = "NewLineReader" /\ ev.res = "err"
    /\ args[4] = "" /\ \A i \in 1..3 : args[i] # ""
    /\ ctorFetches = 0

\* ----------------------------------------------------- the splitter alone

\* The reader before NewLineReader is called, on an empty file.
ReaderIdle ==
    /\ file = <<>> /\ pc = "new"
    /\ readDirection = TopToBottom /\ n = 1 /\ stream = FALSE
    /\ offset = 0 /\ searchOffset = 0 /\ foundLines = 0
    /\ lines = <<>> /\ readLines = 0
    /\ ev = Event("none", "none", 0, -2, "none", -1, 0, 0, 0, NoLine, NoLine)
    /\ emitted = <<>> /\ firstEOF = -1
    /\ faults = FALSE /\ appended = FALSE
    /\ args = [i \in 1..4 |-> "id"] /\ size = -1 /\ ctorFetches = 0
    /\ blen = FullBuffer /\ delivered = <<>>

\* Every file and every offset in it a chunk can be fetched at.
SplitInit ==
    /\ ReaderIdle /\ FormatIdle /\ DiscoverIdle
    /\ chunk \in {[f |-> f, off |-> o] : f \in Files, o \in 0..MaxFile}
    /\ chunk.off <= Len(chunk.f)
    /\ split = NoSplit

\* One call of ReadManager.read with no modifier (read.go:193-239).
SplitChunk ==
    /\ split = NoSplit
    /\ split' = read(chunk.f, chunk.off, chunkSize, "nil")
    /\ UNCHANGED <<reader, chunk, formatter, discovery>>

SplitNext == SplitChunk

SplitSpec == SplitInit /\ [][SplitNext]_vars

\* The bytes of the chunk that `chunk` asks for.
ChunkData == RemoteData(chunk.f, chunk.off, chunkSize)

\* Each line's message followed by one terminator, in order.
RECURSIVE Rejoin(_)
Rejoin(ls) ==
    IF ls = <<>> THEN <<>> ELSE ls[1].Message \o <<NL>> \o Rejoin(Tail(ls))

\* The sum of Size + 1 over the lines.
RECURSIVE Consumed(_)
Consumed(ls) ==
    IF ls = <<>> THEN 0 ELSE ls[1].Size + 1 + Consumed(Tail(ls))

\* C12: splitter round trip.  The returned lines, each followed by one
\* terminator, and then the last delta bytes of the chunk (the withheld
\* fragment) are the chunk's bytes; the sum of Size + 1 over the lines plus
\* delta is the chunk's length.  This includes a chunk without a terminator
\* and the empty chunk.
C12_SplitRoundTrip ==
    split # NoSplit =>
        LET data == ChunkData
            len  == Len(data)
        IN  /\ split.delta <= len
            /\ Rejoin(split.lines) \o SubSeq(data, len - split.delta + 1, len) = data
            /\ Consumed(split.lines) + split.delta = len

\* ------------------------------------------------- the plain-text formatter
\* journal/reader/formatters.go.  Text is a sequence of characters; the time
\* formatted by time.ANSIC is one element, "@" and the seconds, standing for
\* the formatted text of that second.

\* formatters.go:54: RealtimeTimestamp is in microseconds.
MicrosPerSecond == 1000000

FieldNames == {"MESSAGE", "_HOSTNAME", "SYSLOG_IDENTIFIER", "_PID"}

\* The values each field takes in the entries explored.
FieldValues ==
    [MESSAGE |-> {<<"m">>, <<>>}, _HOSTNAME |-> {<<"h">>},
     SYSLOG_IDENTIFIER |-> {<<"s">>}, _PID |-> {<<"7">>}]

\* The timestamps explored, on both sides of a whole second.
Timestamps == {0, MicrosPerSecond - 1, MicrosPerSecond, 2 * MicrosPerSecond + 1}

\* Every entry with any subset of the four fields.
Entries ==
    {[Fields |-> f, RealtimeTimestamp |-> t] :
        f \in {g \in UNION {[D -> {<<"m">>, <<>>, <<"h">>, <<"s">>, <<"7">>}] :
                              D \in SUBSET FieldNames} :
                 \A k \in DOMAIN g : g[k] \in FieldValues[k]},
        t \in Timestamps}

\* time.Unix(sec, 0).Format(time.ANSIC) (formatters.go:54-55).
ANSIC(sec) == <<"@" \o ToString(sec)>>

\* logTextEntry.Add (formatters.go:135-137).
Add(l, s) == Append(l, s)

\* strings.Join.
RECURSIVE Join(_, _)
Join(l, sep) ==
    IF l = <<>> THEN <<>>
    ELSE IF Len(l) = 1 THEN l[1]
    ELSE l[1] \o sep \o Join(Tail(l), sep)

\* logTextEntry.String and ToBytes (formatters.go:139-145).
ToBytes(l) == Join(l, <<" ">>) \o <<"\n">>

\* Mutant of PidItem: the process id without its brackets.
PidItem_Bare(pid) == pid

\* formatters.go:66: the process id as it is added to the line.
PidItem(pid) == <<"[">> \o pid \o <<"]">>

\* FormatText.FormatEntry (formatters.go:43-71).
FormatEntry(e) ==
    IF "MESSAGE" \notin DOMAIN e.Fields
    THEN [bytes |-> <<>>, err |-> "nil"]
    ELSE LET has(k) == k \in DOMAIN e.Fields
             l0 == Add(<<>>, ANSIC(e.RealtimeTimestamp \div MicrosPerSecond))
             l1 == IF has("_HOSTNAME") THEN Add(l0, e.Fields["_HOSTNAME"]) ELSE l0
             l2 == IF has("SYSLOG_IDENTIFIER")
                   THEN Add(l1, e.Fields["SYSLOG_IDENTIFIER"]) ELSE l1
             l3 == IF has("_PID") THEN Add(l2, PidItem(e.Fields["_PID"])) ELSE l2
             l4 == Add(l3, e.Fields["MESSAGE"])
         IN  [bytes |-> ToBytes(l4), err |-> "nil"]

FormatInit ==
    /\ ReaderIdle /\ SplitIdle /\ DiscoverIdle
    /\ entry \in Entries
    /\ entryBytes = NoBytes

\* One call of FormatText.FormatEntry.
FormatText ==
    /\ entryBytes = NoBytes
    /\ entryBytes' = FormatEntry(entry)
    /\ UNCHANGED <<reader, splitter, entry, discovery>>

FormatNext == FormatText

FormatSpec == FormatInit /\ [][FormatNext]_vars

\* The item a field contributes to the line: nothing when it is absent.
ItemOf(e, k, pre, post) ==
    IF k \in DOMAIN e.Fields THEN <<pre \o e.Fields[k] \o post>> ELSE <<>>

\* The present items in the order timestamp, host, identifier, [pid], message.
PresentItems(e) ==
    <<ANSIC(e.RealtimeTimestamp \div MicrosPerSecond)>>
        \o ItemOf(e, "_HOSTNAME", <<>>, <<>>)
        \o ItemOf(e, "SYSLOG_IDENTIFIER", <<>>, <<>>)
        \o ItemOf(e, "_PID", <<"[">>, <<"]">>)
        \o ItemOf(e, "MESSAGE", <<>>, <<>>)

\* The items, one space between neighbours.
RECURSIVE SpaceJoined(_)
SpaceJoined(items) ==
    IF Len(items) = 0 THEN <<>>
    ELSE items[1] \o (IF Len(items) = 1 THEN <<>> ELSE <<" ">> \o SpaceJoined(Tail(items)))

\* The text ends with a newline and holds no other.
OneNewlineAtEnd(t) ==
    /\ Len(t) > 0 /\ t[Len(t)] = "\n"
    /\ \A i \in 1..(Len(t) - 1) : t[i] # "\n"

\* The plain-text line of the entry as the formatter contract words it.
IsPlainTextLine(e, t) ==
    /\ t = SpaceJoined(PresentItems(e)) \o <<"\n">>
    /\ OneNewlineAtEnd(t)

C14_OffsetAfterRefill ==
    [][ (/\ pc = "ready" /\ file' = file
         /\ ev'.op = "Read" /\ ev'.fetches = 1 /\ ev'.out = "ok"
         /\ Buffered(read(file, offset, chunkSize, "nil").lines))
        => offset' = offset + Consumed(read(file, offset, chunkSize, "nil").lines)
      ]_vars

\* ------------------------------------------------ the backward search's edge

\* C15: when the probed size less chunkSize is below 1, a BottomToTop
\* construction sends the size probe and nothing else, and the reader starts
\* at offset 0 whatever n is; and whenever the search position is below 1
\* when the search ends, the reader starts at offset 0.
C15_SmallFileStartsAtZero ==
    /\ (pc \in {"locating", "ready"} /\ size >= 0 /\ size - chunkSize < 1)
       => ctorFetches = 1
    /\ (pc = "ready" /\ ev.op = "Locate" /\ size >= 0 /\ size - chunkSize < 1)
       => offset = 0
    /\ (pc = "ready" /\ ev.op = "Locate" /\ searchOffset < 1)
       => offset = 0

\* C15 witness: a BottomToTop reader for the last two lines of a file of
\* exactly one chunk, holding more lines than that, was constructed.
C15_Witness ==
    /\ pc = "ready" /\ ev.op = "Locate" /\ readDirection = BottomToTop
    /\ size = chunkSize /\ n = 2 /\ Cardinality(Terminators(file)) > 2
    /\ ctorFetches = 1 /\ offset = 0

\* ------------------------------------------------- exactly-once emission

\* The message of l is the bytes [Offset, Offset+Size) of f and the byte at
\* Offset+Size is a terminator.
IsTerminatedLine(f, l) ==
    /\ l.Size = Len(l.Message)
    /\ l.Offset >= 0 /\ l.Offset + l.Size < Len(f)
    /\ l.Message = SubSeq(f, l.Offset + 1, l.Offset + l.Size)
    /\ f[l.Offset + l.Size + 1] = NL

LocateInit ==
    /\ Init /\ readDirection = BottomToTop
    /\ notEmpty(args) = "nil" /\ ~stream

LocateNext == NewLineReader \/ Locate \/ FileGrows

LocateSpec == LocateInit /\ [][LocateNext]_vars /\ WF_vars(Locate)

\* C17: the backward search terminates.  Every iteration that goes on to
\* another one lowers the search position (the held-back part is shorter than
\* chunkSize), and a search that has begun ends, with the boundary found, the
\* search position below 1, or a failed fetch.
C17_LocatorTerminates ==
    /\ [][ (pc = "locating" /\ pc' = "locating" /\ file' = file)
           => (/\ searchOffset' < searchOffset
               /\ searchOffset - searchOffset' <= chunkSize) ]_vars
    /\ (pc = "locating") ~> (pc \in {"ready", "failed"})

\* C17 witness: the search ended by finding the boundary in its second chunk.
C17_Witness ==
    /\ pc = "ready" /\ ev.op = "Locate" /\ ev.res = "found"
    /\ ctorFetches = 3 /\ ~appended

\* ------------------------------------------------------- a failed fetch

\* C18: a Read whose fetch fails changes nothing of the reader: offset,
\* buffer, count and the lines returned so far are as before it, and the
\* reader is where the next Read fetches again at the same offset.
C18_FailedReadChangesNothing ==
    /\ [][ (pc = "ready" /\ file' = file /\ ev'.op = "Read"
            /\ ev'.out \in {"transport", "status", "json"})
           => (/\ offset' = offset /\ lines' = lines
               /\ readLines' = readLines /\ emitted' = emitted
               /\ ev'.res = "err") ]_vars
    /\ [](  (ev.op = "Read" /\ ev.out \in {"transport", "status", "json"})
            => (~LimitReached /\ NeedFetch /\ offset = ev.fetchAt) )

\* C18 witness: a fetch failed after a line had been returned and the offset
\* had advanced.
C18_Witness ==
    /\ ev.op = "Read" /\ ev.res = "err" /\ ev.out = "status"
    /\ readLines > 0 /\ offset > 0 /\ offset = ev.offBefore

\* ------------------------------------------------ a consumer's short slice

\* A streaming TopToBottom reader whose consumer passes slices of at most
\* ShortBuffer bytes, shorter than some encoded lines.
ShortInit ==
    /\ Start /\ stream /\ readDirection = TopToBottom /\ n = 1
    /\ notEmpty(args) = "nil"
    /\ blen \in 1..ShortBuffer

ShortNext == NewLineReader \/ Read \/ FileGrows

ShortSpec == ShortInit /\ [][ShortNext]_vars

\* The encodings of the lines ls, one after the other.
RECURSIVE EncodedAll(_)
EncodedAll(ls) ==
    IF ls = <<>> THEN <<>> ELSE formatFn(ls[1]) \o EncodedAll(Tail(ls))

\* C19: the consumer receives the complete encoding of every line Read pops.
\* What has been delivered is, byte for byte, the beginning of the encodings
\* of the popped lines in order; it reaches into the encoding of the line
\* popped last (what did not fit is still to come, nothing of an earlier line
\* is missing); and a Read that popped a non-empty line did not answer io.EOF.
C19_WholeEncodingDelivered ==
    /\ IsPrefix(delivered, EncodedAll(emitted))
    /\ emitted # <<>> =>
         Len(delivered) > Len(EncodedAll(SubSeq(emitted, 1, Len(emitted) - 1)))
    /\ (ev.op = "Read" /\ ev.line.Message # <<>>) => ev.res = "line"

\* ------------------------------------------------------------ task discovery
\* api/v2/discovery.go.  The resolver is nodeutil.NodeInfo; a successful
\* lookup answers a CanonicalTaskID with at least one container ID.

\* discovery.go:12-14.
prefix == "/system/v1/agent"

\* The CanonicalTaskIDs a lookup of kind `from` can answer: a standalone task
\* or a pod task, in one container or in nested ones.
CanonicalTaskIDs(from) ==
    {[ok |-> TRUE, ID |-> "task", AgentID |-> from, FrameworkID |-> "fw",
      ExecutorID |-> e, ContainerIDs |-> c] :
        e \in {"", "exec"}, c \in {<<"c1">>, <<"c1", "c2">>}}

\* redirectURL (discovery.go:17-37); fname is its parameter file.
redirectURL(id, fname) ==
    LET isPod      == id.ExecutorID # ""
        executorID == IF isPod THEN id.ExecutorID ELSE id.ID
        taskID     == id.ContainerIDs[Len(id.ContainerIDs)]
        taskLogURL == prefix \o "/" \o id.AgentID \o "/logs/v2/task/frameworks/"
                        \o id.FrameworkID \o "/executors/" \o executorID
                        \o "/runs/" \o taskID \o "/"
    IN  IF isPod THEN taskLogURL \o "/tasks/" \o id.ID \o "/" \o fname
        ELSE taskLogURL \o fname

\* Mutant of LookupOrder: completed tasks are asked for first.
LookupOrder_CompletedFirst == <<TRUE, FALSE>>

\* discovery.go:62: the values of `completed` the loop goes through.
LookupOrder == <<FALSE, TRUE>>

\* http.Error and http.Redirect as what they write to w.
Response(status, location) == [status |-> status, location |-> location]

DiscoverInit ==
    /\ ReaderIdle /\ SplitIdle /\ FormatIdle
    /\ req \in [taskID : {"", "task"}, file : {"", "stderr"}]
    /\ resolver \in [running   : {NotFound} \cup CanonicalTaskIDs("agentOfRunning"),
                     completed : {NotFound} \cup CanonicalTaskIDs("agentOfCompleted")]
    /\ handler = NoHandler
    /\ resolverCalls = <<>>
    /\ written = <<>>

\* discover up to the loop (discovery.go:39-52): the default of file and the
\* answer to an empty taskID.
DiscoverBegin ==
    /\ handler.pc = "start"
    /\ LET file0 == IF req.file = "" THEN "stdout" ELSE req.file
       IN  IF req.taskID = ""
           THEN /\ written' = Append(written, Response(500, ""))
                /\ handler' = [handler EXCEPT !.pc = "done", !.file = file0]
           ELSE /\ handler' = [handler EXCEPT !.pc = "lookup", !.file = file0, !.i = 1]
                /\ UNCHANGED written
    /\ UNCHANGED <<reader, splitter, formatter, req, resolver, resolverCalls>>

\* One iteration of the loop (discovery.go:62-67): one call of
\* nodeInfo.TaskCanonicalID.
DiscoverLookup ==
    /\ handler.pc = "lookup"
    /\ LET completed == LookupOrder[handler.i]
           answer    == IF completed THEN resolver.completed ELSE resolver.running
           last      == handler.i = Len(LookupOrder)
       IN  /\ resolverCalls' = Append(resolverCalls, completed)
           /\ handler' = [handler EXCEPT
                            !.canonicalTaskID = answer,
                            !.err = IF answer.ok THEN "nil" ELSE "err",
                            !.pc = IF answer.ok \/ last THEN "respond" ELSE "lookup",
                            !.i = IF answer.ok \/ last THEN handler.i ELSE handler.i + 1]
    /\ UNCHANGED <<reader, splitter, formatter, req, resolver, written>>

\* The rest of discover (discovery.go:69-86): the error or the redirect.
DiscoverRespond ==
    /\ handler.pc = "respond"
    /\ written' = Append(written,
                         IF handler.err # "nil" THEN Response(500, "")
                         ELSE Response(303, redirectURL(handler.canonicalTaskID, handler.file)))
    /\ handler' = [handler EXCEPT !.pc = "done"]
    /\ UNCHANGED <<reader, splitter, formatter, req, resolver, resolverCalls>>

DiscoverNext == DiscoverBegin \/ DiscoverLookup \/ DiscoverRespond

DiscoverSpec == DiscoverInit /\ [][DiscoverNext]_vars

\* C20: for a non-empty task ID discover asks for the task among running
\* tasks first and among completed tasks only when that failed; it answers
\* 303 exactly when one of the two lookups succeeded, redirecting to the first
\* successful result, and 500 without a redirect when both failed; for an
\* empty task ID it answers 500 and never calls the resolver; one response
\* is written per request.
C20_DiscoverOrder ==
    /\ Len(written) <= 1
    /\ resolverCalls \in {<<>>, <<FALSE>>, <<FALSE, TRUE>>}
    /\ Len(resolverCalls) = 2 => ~resolver.running.ok
    /\ req.taskID = "" => resolverCalls = <<>>
    /\ handler.pc = "done" =>
         /\ Len(written) = 1
         /\ req.taskID = "" => written[1] = Response(500, "")
         /\ req.taskID # "" =>
              LET file0 == IF req.file = "" THEN "stdout" ELSE req.file
              IN  /\ written[1].status = 303
                      <=> (resolver.running.ok \/ resolver.completed.ok)
                  /\ resolver.running.ok =>
                       /\ resolverCalls = <<FALSE>>
                       /\ written[1] = Response(303, redirectURL(resolver.running, file0))
                  /\ (~resolver.running.ok /\ resolver.completed.ok) =>
                       /\ resolverCalls = <<FALSE, TRUE>>
                       /\ written[1] = Response(303, redirectURL(resolver.completed, file0))
                  /\ (~resolver.running.ok /\ ~resolver.completed.ok) =>
                       /\ resolverCalls = <<FALSE, TRUE>>
                       /\ written[1] = Response(500, "")

\* C20 witness: the task was not running but completed, in a pod, and the
\* request was redirected to its stdout after two lookups.
C20_Witness ==
    /\ handler.pc = "done" /\ req.taskID # "" /\ req.file = ""
    /\ ~resolver.running.ok /\ resolver.completed.ok
    /\ resolver.completed.ExecutorID # "" /\ Len(resolver.completed.ContainerIDs) = 2
    /\ resolverCalls = <<FALSE, TRUE>>
    /\ written = <<Response(303,
         "/system/v1/agent/agentOfCompleted/logs/v2/task/frameworks/fw/executors/exec/runs/c2//tasks/task/stdout")>>

====
